---- MODULE Spec2Model ----
(***************************************************************************)
(* A model of module/rnn_base.py: GruEncoder and GruDecoder.               *)
(*                                                                         *)
(* Tensors are modelled by their index structure.  A feature vector of     *)
(* hidden_size (or embedding_dim) floats is abstracted to one number, so   *)
(* a (batch, time, hidden_size) tensor is a sequence over the batch of     *)
(* sequences over time of numbers.  The numeric kernels of the tensor      *)
(* library (GRU cell, linear layer) are fixed deterministic functions of   *)
(* their weights and inputs; everything the repository's code does with    *)
(* them (loops, indexing, slicing, summing, feeding back) is modelled      *)
(* statement by statement.                                                 *)
(***************************************************************************)
EXTENDS Integers, Sequences, FiniteSets, TLC

\* ------------------------------------------------------------------ bounds
\* vocab_size of both components (rnn_base.py:23, :68)
vocab_size == 2
\* largest max_seq_len a decoder is constructed with (rnn_base.py:71)
MaxSeqLen == 2
\* largest num_layers a component is constructed with (rnn_base.py:27, :72)
MaxLayers == 2
\* largest batch size of a call
MaxBatch == 2
\* largest padded width of an encoder input / of a target batch
MaxLen == 2
\* how many optimizer updates and how many weight replacements a run makes
MaxUpdates == 2

\* ----------------------------------------------------------------- domains
\* values of one (abstracted) tensor entry of a parameter or recurrent state
Val == {0, 1}
\* token ids, [0, vocab_size)
Vocab == 0 .. (vocab_size - 1)
\* an embedding table: one entry per token id (a 0-based row index)
Tables == [Vocab -> Val]

Max(S) == CHOOSE m \in S : \A y \in S : y <= m
Range(s) == {s[i] : i \in DOMAIN s}

\* sequences of exactly n elements of S
SeqN(S, n) == [1 .. n -> S]

\* --------------------------------------------------- tensor library kernels
\* nn.Embedding.__call__: row `id` of the table
embedding_lookup(weight, id) == weight[id]

\* one GRU cell: new state from weight, input and previous state
GruCell(w, x, h) == (x + w * h + 1) % 2

\* the weight of layer k, direction d (0 forward, 1 backward) of a GRU stack
LayerWeight(w, k, d) == (w + k + d) % 2

\* the states of one direction of one layer over a whole sequence xs:
\* forward hs[p] = cell(xs[p], hs[p-1]), zero initial state
RECURSIVE FwdScan(_, _, _)
FwdScan(w, xs, n) ==
    IF n = 0 THEN << >>
    ELSE LET prev == FwdScan(w, xs, n - 1)
             h0 == IF n = 1 THEN 0 ELSE prev[n - 1]
         IN Append(prev, GruCell(w, xs[n], h0))

Reverse(s) == [i \in 1 .. Len(s) |-> s[Len(s) + 1 - i]]

\* backward hs[p] = cell(xs[p], hs[p+1]), zero initial state at the end
BwdScan(w, xs, n) == Reverse(FwdScan(w, Reverse(xs), n))

\* nn.GRU on one packed sequence xs (its true length only), layers k..L.
\* Returns [out |-> per position the last layer's <<fwd>> or <<fwd, bwd>>,
\*          h_n |-> final states, layer by layer, directions adjacent]
RECURSIVE GruStack(_, _, _, _, _)
GruStack(w, xs, k, L, bidir) ==
    LET n == Len(xs)
        f == FwdScan(LayerWeight(w, k, 0), xs, n)
        b == BwdScan(LayerWeight(w, k, 1), xs, n)
        here == IF bidir THEN <<f[n], b[1]>> ELSE <<f[n]>>
        outs == [p \in 1 .. n |-> IF bidir THEN <<f[p], b[p]>> ELSE <<f[p]>>]
        nextIn == [p \in 1 .. n |-> IF bidir THEN f[p] + b[p] ELSE f[p]]
    IN IF k = L THEN [out |-> outs, h_n |-> here]
       ELSE LET rest == GruStack(w, nextIn, k + 1, L, bidir)
            IN [out |-> rest.out, h_n |-> here \o rest.h_n]


\* ------------------------------------------------------------------- state
VARIABLES
    PAD_TOKEN_ID,   \* util.tokens.PAD_TOKEN_ID
    SOS_TOKEN_ID,   \* util.tokens.SOS_TOKEN_ID
    enc,            \* the GruEncoder object: configuration and parameters
    dec,            \* the GruDecoder object: configuration, mode, parameters
    pc,             \* where the (single-threaded) driver is
    ef,             \* locals of the running / last GruEncoder.forward call
    df,             \* locals of the running / last GruDecoder.forward call
    loaded,         \* per component: the matrix last given to init_embedding_weight, if any
    updates         \* the optimizer updates and weight replacements made, in order

vars == <<PAD_TOKEN_ID, SOS_TOKEN_ID, enc, dec, pc, ef, df, loaded, updates>>

None == "none"

\* no call made yet
NoEncFrame ==
    [x |-> << >>, seq_lengths |-> << >>, packed_input |-> << >>,
     h_n |-> << >>, output |-> << >>, hidden_state |-> << >>]

NoDecFrame ==
    [batch_size |-> 0, encoder_hidden_state |-> << >>, tgt_seqs |-> << >>,
     logits |-> << >>, decoder_input |-> << >>, prev_hidden_state |-> << >>,
     predictions |-> << >>, t |-> 0, fed |-> << >>, mode |-> None]

\* the driver is between calls, holding no result of a call
Between == pc = "idle"

\* a call is over: it returned or raised
Over == pc \in {"enc_returned", "enc_raised", "dec_returned", "dec_raised"}

\* the caller is done with what a call gave back: per-call tensors are dropped
Discard ==
    /\ Over
    /\ pc' = "idle"
    /\ ef' = NoEncFrame
    /\ df' = NoDecFrame
    /\ UNCHANGED <<PAD_TOKEN_ID, SOS_TOKEN_ID, enc, dec, loaded, updates>>

\* -------------------------------------------------------------- GruEncoder
\* GruEncoder.__init__: the objects a constructor call can build.
\* nn.Embedding(padding_idx=PAD_TOKEN_ID) zeroes the padding row.
\* dropout_prob is left at its default 0.0 (line 28): the encoder's recurrent
\* stack draws no dropout mask.
GruEncoderInit(pad) ==
    { [bidirectional |-> bi, num_layers |-> L,
       embedding_weight |-> w, requires_grad |-> TRUE, rnn_weight |-> r] :
        bi \in BOOLEAN, L \in 1 .. MaxLayers,
        w \in {tb \in Tables : tb[pad] = 0}, r \in Val }

\* a packing that checks the lengths' sign but not their order
PackAccepts_Unordered(seq_lengths) ==
    \A b \in 1 .. Len(seq_lengths) : seq_lengths[b] > 0

\* pack_padded_sequence(embedding, seq_lengths, batch_first=True) with the
\* default enforce_sorted=True accepts only positive lengths in decreasing order
PackAccepts(seq_lengths) ==
    /\ \A b \in 1 .. Len(seq_lengths) : seq_lengths[b] > 0
    /\ \A b \in 1 .. (Len(seq_lengths) - 1) : seq_lengths[b] >= seq_lengths[b + 1]

\* the packed sequence: of each row, the positions before its true length
pack_padded_sequence(embedding, seq_lengths) ==
    [b \in 1 .. Len(embedding) |-> SubSeq(embedding[b], 1, seq_lengths[b])]

\* pad_packed_sequence(output, batch_first=True, padding_value=v): every row
\* is padded with v to the longest length of the batch (no total_length given)
pad_packed_sequence(packed, v, blocks) ==
    LET T == Max({Len(packed[b]) : b \in 1 .. Len(packed)})
    IN [b \in 1 .. Len(packed) |->
          [p \in 1 .. T |-> IF p <= Len(packed[b]) THEN packed[b][p]
                            ELSE [j \in 1 .. blocks |-> v]]]

\* forward, lines 42-43: embed and pack; the packing may raise
EncForwardPack(x, seq_lengths) ==
    /\ Between
    /\ LET embedding == [b \in 1 .. Len(x) |->
                           [p \in 1 .. Len(x[b]) |->
                              embedding_lookup(enc.embedding_weight, x[b][p])]]
       IN IF PackAccepts(seq_lengths)
          THEN /\ ef' = [NoEncFrame EXCEPT !.x = x, !.seq_lengths = seq_lengths,
                            !.packed_input = pack_padded_sequence(embedding, seq_lengths)]
               /\ pc' = "enc_packed"
          ELSE /\ ef' = [NoEncFrame EXCEPT !.x = x, !.seq_lengths = seq_lengths]
               /\ pc' = "enc_raised"
    /\ UNCHANGED <<PAD_TOKEN_ID, SOS_TOKEN_ID, enc, dec, df, loaded, updates>>

\* forward, lines 48-51: run the recurrent stack and pad its output
EncForwardRnn ==
    /\ pc = "enc_packed"
    /\ LET B == Len(ef.packed_input)
           dirs == IF enc.bidirectional THEN 2 ELSE 1
           run == [b \in 1 .. B |->
                     GruStack(enc.rnn_weight, ef.packed_input[b], 1,
                              enc.num_layers, enc.bidirectional)]
           h == [j \in 1 .. (dirs * enc.num_layers) |-> [b \in 1 .. B |-> run[b].h_n[j]]]
       IN ef' = [ef EXCEPT
                   !.h_n = h,
                   !.hidden_state = h,
                   !.output = pad_packed_sequence([b \in 1 .. B |-> run[b].out],
                                                  PAD_TOKEN_ID, dirs)]
    /\ pc' = "enc_rnn"
    /\ UNCHANGED <<PAD_TOKEN_ID, SOS_TOKEN_ID, enc, dec, df, loaded, updates>>

\* line 53: output[:, :, :hidden_size] + output[:, :, hidden_size:]
MergeOutput(output) ==
    [b \in 1 .. Len(output) |->
       [p \in 1 .. Len(output[b]) |-> <<output[b][p][1] + output[b][p][2]>>]]

\* line 54: hidden_state[:num_layers] + hidden_state[num_layers:]
MergeHidden(hidden_state, num_layers) ==
    LET lo == SubSeq(hidden_state, 1, num_layers)
        hi == SubSeq(hidden_state, num_layers + 1, Len(hidden_state))
    IN [k \in 1 .. num_layers |->
          [b \in 1 .. Len(lo[k]) |-> lo[k][b] + hi[k][b]]]

\* forward, lines 52-56: merge the directions and return
EncForwardMerge ==
    /\ pc = "enc_rnn"
    /\ ef' = IF enc.bidirectional
             THEN [ef EXCEPT !.output = MergeOutput(ef.output),
                             !.hidden_state = MergeHidden(ef.hidden_state, enc.num_layers)]
             ELSE ef
    /\ pc' = "enc_returned"
    /\ UNCHANGED <<PAD_TOKEN_ID, SOS_TOKEN_ID, enc, dec, df, loaded, updates>>

\* the input batches a caller passes: a (batch, max_len) tensor of token ids
\* and one true length per row, each within the padded width
EncInputs ==
    UNION { { <<x, ls>> : x \in SeqN(SeqN(Vocab, W), B), ls \in SeqN(1 .. W, B) } :
            B \in 1 .. MaxBatch, W \in 1 .. MaxLen }

EncForward ==
    \/ Between /\ \E a \in EncInputs : EncForwardPack(a[1], a[2])
    \/ EncForwardRnn
    \/ EncForwardMerge

\* -------------------------------------------------------------- GruDecoder
\* dropout_prob: 0 is the default 0.0 (line 73), 1 stands for any positive
\* probability below one
DropoutProbs == {0, 1}

\* GruDecoder.__init__: the objects a constructor call can build
\* (self.training is nn.Module's flag, set by train() / eval())
GruDecoderInit(pad) ==
    { [max_seq_len |-> n, num_layers |-> L, dropout_prob |-> p, training |-> tr,
       embedding_weight |-> w, requires_grad |-> TRUE,
       rnn_weight |-> r, linear_weight |-> l] :
        n \in 1 .. MaxSeqLen, L \in 1 .. MaxLayers, p \in DropoutProbs,
        tr \in BOOLEAN, w \in {tb \in Tables : tb[pad] = 0}, r \in Val, l \in Val }

\* nn.Linear(hidden_size, vocab_size) on one output: a score per token id
\* (the bias makes the scores of distinct ids differ)
linear_transform(w, o) == [v \in Vocab |-> (w * (o + 1) + v) % vocab_size]

\* nn.functional.log_softmax(outputs, dim=-1): the scores are shifted by a
\* common amount, so that the largest becomes the least negative
log_softmax(row) == [v \in Vocab |-> row[v] - Max(Range(row)) - 1]

\* dropout that stays on in inference mode
DropoutMasks_Always(d, B) ==
    IF d.dropout_prob > 0
    THEN SeqN(SeqN(BOOLEAN, d.num_layers - 1), B)
    ELSE {[b \in 1 .. B |-> [k \in 1 .. (d.num_layers - 1) |-> TRUE]]}

\* nn.GRU(dropout=dropout_prob) zeroes entries of the output of every layer
\* but the last, at random, while the module is in training mode; keep[k]
\* tells whether layer k's output survives.  The masks one call may draw:
DropoutMasks(d, B) ==
    IF d.training /\ d.dropout_prob > 0
    THEN SeqN(SeqN(BOOLEAN, d.num_layers - 1), B)
    ELSE {[b \in 1 .. B |-> [k \in 1 .. (d.num_layers - 1) |-> TRUE]]}

\* self.rnn(embedding, prev_hidden_state) for one batch element and one time
\* step: layer k reads layer k-1's new state; the new states of layers 1..k
RECURSIVE GruStep(_, _, _, _, _)
GruStep(w, x, h, keep, k) ==
    IF k = 0 THEN << >>
    ELSE LET below == GruStep(w, x, h, keep, k - 1)
             input == IF k = 1 THEN x
                      ELSE IF keep[k - 1] THEN below[k - 1] ELSE 0
         IN Append(below, GruCell(LayerWeight(w, k, 0), input, h[k]))

\* step, lines 126-136
step(d, inputs, prev_hidden_state, keep) ==
    LET B == Len(inputs)
        embedding == [b \in 1 .. B |-> embedding_lookup(d.embedding_weight, inputs[b])]
        new == [b \in 1 .. B |->
                  GruStep(d.rnn_weight, embedding[b],
                          [k \in 1 .. d.num_layers |-> prev_hidden_state[k][b]],
                          keep[b], d.num_layers)]
        outputs == [b \in 1 .. B |->
                      log_softmax(linear_transform(d.linear_weight, new[b][d.num_layers]))]
    IN [outputs |-> outputs,
        hidden_state |-> [k \in 1 .. d.num_layers |-> [b \in 1 .. B |-> new[b][k]]]]

\* a top-1 that returns the index of the smallest score
topk_smallest(row) == CHOOSE v \in Vocab : \A u \in Vocab : row[v] <= row[u]

\* decoder_output.data.topk(1) on one row: the index of the largest score
topk(row) == CHOOSE v \in Vocab : \A u \in Vocab : row[u] <= row[v]

\* forward, lines 94-106: the locals before the loop
DecForwardCall(batch_size, encoder_hidden_state, tgt_seqs) ==
    /\ Between
    /\ df' = [batch_size |-> batch_size,
              encoder_hidden_state |-> encoder_hidden_state,
              tgt_seqs |-> tgt_seqs,
              logits |-> [t \in 1 .. dec.max_seq_len |->
                            [b \in 1 .. batch_size |-> [v \in Vocab |-> 0]]],
              decoder_input |-> [b \in 1 .. batch_size |-> SOS_TOKEN_ID],
              prev_hidden_state |-> encoder_hidden_state,
              predictions |-> << >>,
              t |-> 0,
              fed |-> << >>,
              mode |-> IF dec.training THEN "training" ELSE "inference"]
    /\ pc' = "dec_loop"
    /\ UNCHANGED <<PAD_TOKEN_ID, SOS_TOKEN_ID, enc, dec, ef, loaded, updates>>

\* tgt_seqs[:, t] (0-based t): defined when the width reaches past column t
ColumnExists(tgt_seqs, t) == \A b \in 1 .. Len(tgt_seqs) : t < Len(tgt_seqs[b])
Column(tgt_seqs, t) == [b \in 1 .. Len(tgt_seqs) |-> tgt_seqs[b][t + 1]]

\* a loop that feeds back its own prediction in both modes
NextInput_Greedy(training, tgt_seqs, t, decoder_output) ==
    [b \in 1 .. Len(decoder_output) |-> topk(decoder_output[b])]

\* a loop that feeds the target in both modes, whenever it has the column
NextInput_Forced(training, tgt_seqs, t, decoder_output) ==
    IF training \/ ColumnExists(tgt_seqs, t) THEN Column(tgt_seqs, t)
    ELSE [b \in 1 .. Len(decoder_output) |-> topk(decoder_output[b])]

\* the decoder input for the next iteration, lines 111-120
NextInput(training, tgt_seqs, t, decoder_output) ==
    IF training THEN Column(tgt_seqs, t)
    ELSE [b \in 1 .. Len(decoder_output) |-> topk(decoder_output[b])]

\* forward, lines 107-121: one iteration of the loop
DecForwardStep ==
    /\ pc = "dec_loop"
    /\ df.t < dec.max_seq_len
    /\ \E keep \in DropoutMasks(dec, df.batch_size) :
       LET r == step(dec, df.decoder_input, df.prev_hidden_state, keep)
           seen == [t |-> df.t, input |-> df.decoder_input,
                    prev_hidden_state |-> df.prev_hidden_state,
                    hidden_state |-> r.hidden_state]
           written == [df EXCEPT !.logits[df.t + 1] = r.outputs,
                                 !.fed = Append(df.fed, seen)]
       IN IF dec.training /\ ~ColumnExists(df.tgt_seqs, df.t)
          THEN \* IndexError at line 113
               /\ df' = written
               /\ pc' = "dec_raised"
          ELSE LET next == NextInput(dec.training, df.tgt_seqs, df.t, r.outputs)
               IN /\ df' = [written EXCEPT
                              !.decoder_input = next,
                              !.predictions = IF dec.training THEN @ ELSE Append(@, next),
                              !.prev_hidden_state = r.hidden_state,
                              !.t = df.t + 1]
                  /\ pc' = "dec_loop"
    /\ UNCHANGED <<PAD_TOKEN_ID, SOS_TOKEN_ID, enc, dec, ef, loaded, updates>>

\* logits.transpose(0, 1): (time, batch, vocab) to (batch, time, vocab)
Transpose(logits, batch_size) ==
    [b \in 1 .. batch_size |-> [t \in 1 .. Len(logits) |-> logits[t][b]]]

\* forward, lines 123-124: the loop is over; transpose and return
DecForwardReturn ==
    /\ pc = "dec_loop"
    /\ df.t = dec.max_seq_len
    /\ df' = [df EXCEPT !.logits = Transpose(df.logits, df.batch_size)]
    /\ pc' = "dec_returned"
    /\ UNCHANGED <<PAD_TOKEN_ID, SOS_TOKEN_ID, enc, dec, ef, loaded, updates>>

\* what a caller passes: the encoder's final hidden state (one state per
\* decoder layer and batch element) and a padded target batch of any width
DecInputs ==
    UNION { { <<B, h, tg>> : h \in SeqN(SeqN(Val, B), dec.num_layers),
                             tg \in SeqN(SeqN(Vocab, W), B) } :
            B \in 1 .. MaxBatch, W \in 0 .. MaxLen }

DecForward ==
    \/ Between /\ \E a \in DecInputs : DecForwardCall(a[1], a[2], a[3])
    \/ DecForwardStep
    \/ DecForwardReturn

\* nn.Module.train() / eval() on the decoder, between calls
SetTraining(flag) ==
    /\ Between
    /\ dec.training # flag
    /\ dec' = [dec EXCEPT !.training = flag]
    /\ UNCHANGED <<PAD_TOKEN_ID, SOS_TOKEN_ID, enc, pc, ef, df, loaded, updates>>

\* ------------------------------------------- weights: replacement, updates
\* a replacement that leaves the new table trainable
init_embedding_weight_trainable(m, weight) ==
    [m EXCEPT !.embedding_weight = weight, !.requires_grad = TRUE]

\* init_embedding_weight, lines 58-60 and 138-140 (the same statement in
\* both classes): the table becomes `weight`, as a parameter that takes no
\* gradient
init_embedding_weight(m, weight) ==
    [m EXCEPT !.embedding_weight = weight, !.requires_grad = FALSE]

EncInitEmbeddingWeight(weight) ==
    /\ Between
    /\ Len(updates) < MaxUpdates
    /\ enc' = init_embedding_weight(enc, weight)
    /\ loaded' = [loaded EXCEPT !.enc = {weight}]
    /\ updates' = Append(updates, "enc_init")
    /\ UNCHANGED <<PAD_TOKEN_ID, SOS_TOKEN_ID, dec, pc, ef, df>>

DecInitEmbeddingWeight(weight) ==
    /\ Between
    /\ Len(updates) < MaxUpdates
    /\ dec' = init_embedding_weight(dec, weight)
    /\ loaded' = [loaded EXCEPT !.dec = {weight}]
    /\ updates' = Append(updates, "dec_init")
    /\ UNCHANGED <<PAD_TOKEN_ID, SOS_TOKEN_ID, enc, pc, ef, df>>

\* the embedding tables an optimizer update can leave behind: a table that
\* takes no gradient is skipped, and the padding row of a trainable table
\* (padding_idx, lines 33 and 79) receives a zero gradient
UpdatedTables(m) ==
    IF m.requires_grad
    THEN {tb \in Tables : tb[PAD_TOKEN_ID] = m.embedding_weight[PAD_TOKEN_ID]}
    ELSE {m.embedding_weight}

\* one update of the encoder's parameters by the external optimizer
EncOptimizerStep ==
    /\ Between
    /\ Len(updates) < MaxUpdates
    /\ \E tb \in UpdatedTables(enc), r \in Val :
        enc' = [enc EXCEPT !.embedding_weight = tb, !.rnn_weight = r]
    /\ updates' = Append(updates, "enc_step")
    /\ UNCHANGED <<PAD_TOKEN_ID, SOS_TOKEN_ID, dec, pc, ef, df, loaded>>

\* one update of the decoder's parameters by the external optimizer
DecOptimizerStep ==
    /\ Between
    /\ Len(updates) < MaxUpdates
    /\ \E tb \in UpdatedTables(dec), r \in Val, l \in Val :
        dec' = [dec EXCEPT !.embedding_weight = tb, !.rnn_weight = r,
                           !.linear_weight = l]
    /\ updates' = Append(updates, "dec_step")
    /\ UNCHANGED <<PAD_TOKEN_ID, SOS_TOKEN_ID, enc, pc, ef, df, loaded>>

\* ---------------------------------------------------------- specifications
\* the reserved ids: any padding id, and a start id different from it
InitTokens ==
    /\ PAD_TOKEN_ID \in Vocab
    /\ SOS_TOKEN_ID = (PAD_TOKEN_ID + 1) % vocab_size

InitRest ==
    /\ pc = "idle"
    /\ ef = NoEncFrame
    /\ df = NoDecFrame
    /\ loaded = [enc |-> {}, dec |-> {}]
    /\ updates = << >>

\* one encoder and one decoder of a fixed construction
SomeEncoder(pad) ==
    [bidirectional |-> FALSE, num_layers |-> 1,
     embedding_weight |-> [v \in Vocab |-> IF v = pad THEN 0 ELSE 1],
     requires_grad |-> TRUE, rnn_weight |-> 1]

SomeDecoder(pad, tr) ==
    [max_seq_len |-> MaxSeqLen, num_layers |-> 1, dropout_prob |-> 0, training |-> tr,
     embedding_weight |-> [v \in Vocab |-> IF v = pad THEN 0 ELSE 1],
     requires_grad |-> TRUE, rnn_weight |-> 1, linear_weight |-> 1]

\* the encoder alone, any construction
InitEnc ==
    /\ InitTokens
    /\ enc \in GruEncoderInit(PAD_TOKEN_ID)
    /\ dec = SomeDecoder(PAD_TOKEN_ID, FALSE)
    /\ InitRest

NextEnc == EncForward \/ Discard

SpecEnc == InitEnc /\ [][NextEnc]_vars

\* any decoder under any sequence of forward calls and mode switches
InitDec ==
    /\ InitTokens
    /\ enc = SomeEncoder(PAD_TOKEN_ID)
    /\ dec \in GruDecoderInit(PAD_TOKEN_ID)
    /\ InitRest

NextDec ==
    \/ DecForward
    \/ EncForward
    \/ \E flag \in BOOLEAN : SetTraining(flag)
    \/ Discard

SpecDec == InitDec /\ [][NextDec]_vars

\* both components over their life: calls, mode switches, weight
\* replacements and optimizer updates
Init ==
    /\ InitTokens
    /\ enc = SomeEncoder(PAD_TOKEN_ID)
    /\ \E tr \in BOOLEAN : dec = SomeDecoder(PAD_TOKEN_ID, tr)
    /\ InitRest

Next ==
    \/ EncForward
    \/ DecForward
    \/ \E flag \in BOOLEAN : SetTraining(flag)
    \/ Between /\ \E w \in Tables : EncInitEmbeddingWeight(w)
    \/ Between /\ \E w \in Tables : DecInitEmbeddingWeight(w)
    \/ EncOptimizerStep
    \/ DecOptimizerStep
    \/ Discard

Spec == Init /\ [][Next]_vars

\* ------------------------------------------------------------------ claims
\* the scores written for (0-based) step t and batch element b: logits is
\* (time, batch, vocab) inside the loop and (batch, time, vocab) once returned
LogitsAt(t, b) ==
    IF pc = "dec_returned" THEN df.logits[b][t + 1] ELSE df.logits[t + 1][b]

IsArgmax(v, row) == v \in Vocab /\ \A u \in Vocab \ {v} : row[u] < row[v]

AllSos == [b \in 1 .. df.batch_size |-> SOS_TOKEN_ID]

\* C1 as stated: in training mode step 0 is fed the start sentinel and every
\* step t >= 1 is fed tgt_seqs[:, t]
C1_FeedsColumnT ==
    df.mode = "training" =>
        \A i \in 1 .. Len(df.fed) :
            LET f == df.fed[i]
            IN /\ f.t = 0 => f.input = AllSos
               /\ (f.t >= 1 /\ ColumnExists(df.tgt_seqs, f.t)) =>
                      f.input = Column(df.tgt_seqs, f.t)

\* C1 amended: in training mode step 0 is fed the start sentinel and every
\* step t in 1..max_seq_len-1 is fed the ground-truth token of the previous
\* position, tgt_seqs[:, t-1], whatever the decoder predicted at step t-1
C1_FeedsColumnBefore ==
    df.mode = "training" =>
        \A i \in 1 .. Len(df.fed) :
            LET f == df.fed[i]
            IN /\ f.t = i - 1
               /\ f.t = 0 => f.input = AllSos
               /\ f.t >= 1 => f.input = Column(df.tgt_seqs, f.t - 1)

\* a training call whose second step was fed a token that is neither the
\* decoder's own prediction at step 0 nor the target's token at position 1
C1_Witness ==
    /\ pc = "dec_loop"
    /\ df.mode = "training"
    /\ Len(df.fed) = 2
    /\ ColumnExists(df.tgt_seqs, 1)
    /\ \E b \in 1 .. df.batch_size :
        /\ df.fed[2].input[b] # topk(LogitsAt(0, b))
        /\ df.fed[2].input[b] # df.tgt_seqs[b][2]

\* C2 as stated: a training-mode call completes for every target width and
\* returns logits with max_seq_len time steps and no predictions
C2_TrainingCompletes ==
    df.mode = "training" =>
        /\ pc # "dec_raised"
        /\ pc = "dec_returned" =>
              /\ Len(df.logits) = df.batch_size
              /\ \A b \in 1 .. df.batch_size : Len(df.logits[b]) = dec.max_seq_len
              /\ df.predictions = << >>

\* C3: an inference-mode call returns only after exactly max_seq_len steps,
\* with max_seq_len predictions, entry t holding for every batch element the
\* token id whose score is the highest in the logits written for step t
C3_GreedyPredictions ==
    (df.mode = "inference" /\ pc = "dec_returned") =>
        /\ df.t = dec.max_seq_len
        /\ Len(df.fed) = dec.max_seq_len
        /\ Len(df.predictions) = dec.max_seq_len
        /\ Len(df.logits) = df.batch_size
        /\ \A b \in 1 .. df.batch_size : Len(df.logits[b]) = dec.max_seq_len
        /\ \A t \in 1 .. dec.max_seq_len :
            /\ Len(df.predictions[t]) = df.batch_size
            /\ \A b \in 1 .. df.batch_size :
                IsArgmax(df.predictions[t][b], df.logits[b][t])

\* a returned inference call of the longest length on a batch of two whose
\* predictions differ between two steps
C3_Witness ==
    /\ pc = "dec_returned"
    /\ df.mode = "inference"
    /\ dec.max_seq_len = MaxSeqLen
    /\ df.batch_size = 2
    /\ df.predictions[1] # df.predictions[MaxSeqLen]

\* C4: in inference mode step 0 reads the start sentinel and the encoder's
\* final hidden state; every later step reads the argmax of the previous
\* step's scores and the hidden state the previous step returned
C4_GreedyFeedback ==
    df.mode = "inference" =>
        \A i \in 1 .. Len(df.fed) :
            LET f == df.fed[i]
            IN /\ f.t = i - 1
               /\ i = 1 => /\ f.input = AllSos
                           /\ f.prev_hidden_state = df.encoder_hidden_state
               /\ i > 1 => /\ \A b \in 1 .. df.batch_size :
                                IsArgmax(f.input[b], LogitsAt(i - 2, b))
                           /\ f.prev_hidden_state = df.fed[i - 1].hidden_state

\* an inference call whose second step read a token other than the target's
\* at either neighbouring position, and a hidden state other than the encoder's
C4_Witness ==
    /\ df.mode = "inference"
    /\ Len(df.fed) = 2
    /\ ColumnExists(df.tgt_seqs, 1)
    /\ \E b \in 1 .. df.batch_size :
        /\ df.fed[2].input[b] # df.tgt_seqs[b][1]
        /\ df.fed[2].input[b] # df.tgt_seqs[b][2]
    /\ df.fed[2].prev_hidden_state # df.encoder_hidden_state

\* C5 as stated: a bidirectional encoder returns num_layers states, layer k
\* being the sum of layer k's forward and layer k's backward final state
\* (ef.h_n holds what the recurrent stack returned, directions adjacent)
C5_SumsPerLayer ==
    (pc = "enc_returned" /\ enc.bidirectional) =>
        /\ Len(ef.hidden_state) = enc.num_layers
        /\ \A k \in 1 .. enc.num_layers :
            \A b \in 1 .. Len(ef.x) :
                ef.hidden_state[k][b] = ef.h_n[2 * k - 1][b] + ef.h_n[2 * k][b]

\* C6 as stated: the returned output has the batch size and the padded
\* width of the input, and one hidden_size block per position
C6_OutputHasPaddedWidth ==
    pc = "enc_returned" =>
        /\ Len(ef.output) = Len(ef.x)
        /\ \A b \in 1 .. Len(ef.x) :
            /\ Len(ef.output[b]) = Len(ef.x[b])
            /\ \A p \in 1 .. Len(ef.output[b]) : Len(ef.output[b][p]) = 1

Unsorted(seq_lengths) ==
    \E b \in 1 .. (Len(seq_lengths) - 1) : seq_lengths[b] < seq_lengths[b + 1]

\* C7 as stated: a call with lengths that are not in descending order raises
\* no error
C7_UnsortedIsSilent ==
    Unsorted(ef.seq_lengths) => pc # "enc_raised"

\* C7 amended: a call with lengths that are not in descending order raises at
\* the packing step and returns no (output, hidden state) pair
C7_UnsortedRaises ==
    Unsorted(ef.seq_lengths) =>
        /\ pc = "enc_raised"
        /\ ef.packed_input = << >>
        /\ ef.output = << >>
        /\ ef.hidden_state = << >>

\* a call with positive, unsorted lengths that raised
C7_Witness ==
    /\ pc = "enc_raised"
    /\ Unsorted(ef.seq_lengths)
    /\ \A b \in 1 .. Len(ef.seq_lengths) : ef.seq_lengths[b] >= 1

\* looking up any token id in component m's table gives the row of W
LoadedLookup(m, W) ==
    \A i \in Vocab : embedding_lookup(m.embedding_weight, i) = W[i]

LastUpdate(log) == log[Len(log)]

\* a step that is a call of init_embedding_weight
IsReplacement ==
    /\ Len(updates') = Len(updates) + 1
    /\ LastUpdate(updates') \in {"enc_init", "dec_init"}

\* C8: once init_embedding_weight(W) was called on a component, looking up
\* any token id i (the padding id too) gives W[i], through every later
\* forward call and optimizer update; and the call itself changes no
\* recurrent or projection parameter
C8_ReplacedTableIsFrozen ==
    /\ [](/\ \A W \in loaded.enc : LoadedLookup(enc, W)
          /\ \A W \in loaded.dec : LoadedLookup(dec, W))
    /\ [][IsReplacement =>
            /\ enc'.rnn_weight = enc.rnn_weight
            /\ dec'.rnn_weight = dec.rnn_weight
            /\ dec'.linear_weight = dec.linear_weight]_vars

\* the decoder's table was replaced by a matrix with a non-zero padding row,
\* then the optimizer changed the decoder's other parameters, then a forward
\* call of the decoder returned
C8_Witness ==
    /\ updates = <<"dec_init", "dec_step">>
    /\ \E W \in loaded.dec : W[PAD_TOKEN_ID] # 0
    /\ dec.rnn_weight = 0
    /\ dec.linear_weight = 0
    /\ pc = "dec_returned"

\* greedy decoding as a function of the decoder object and the call's
\* inputs alone: the first n steps, each [outputs, hidden_state, prediction]
RECURSIVE GreedySteps(_, _, _, _)
GreedySteps(d, B, h0, n) ==
    IF n = 0 THEN << >>
    ELSE LET before == GreedySteps(d, B, h0, n - 1)
             input == IF n = 1 THEN [b \in 1 .. B |-> SOS_TOKEN_ID]
                      ELSE before[n - 1].prediction
             h == IF n = 1 THEN h0 ELSE before[n - 1].hidden_state
             r == step(d, input, h,
                       [b \in 1 .. B |-> [k \in 1 .. (d.num_layers - 1) |-> TRUE]])
         IN Append(before,
                   [outputs |-> r.outputs, hidden_state |-> r.hidden_state,
                    prediction |-> [b \in 1 .. B |-> topk(r.outputs[b])]])

\* a step of a forward call, of either component
IsForwardStep ==
    pc' \in {"enc_packed", "enc_rnn", "enc_returned", "enc_raised",
             "dec_loop", "dec_returned", "dec_raised"}

\* C9: no step of a forward call changes a component's configuration, mode
\* or parameters, and what an inference-mode decoder call returns is a
\* function of the weights and the call's inputs alone, so two such calls
\* with the same weights and inputs return the same logits and predictions
\* whatever was called in between
C9_ForwardIsPure ==
    /\ [][IsForwardStep => (enc' = enc /\ dec' = dec)]_vars
    /\ []((pc = "dec_returned" /\ df.mode = "inference") =>
            LET g == GreedySteps(dec, df.batch_size, df.encoder_hidden_state,
                                 dec.max_seq_len)
            IN /\ df.logits = [b \in 1 .. df.batch_size |->
                                 [t \in 1 .. dec.max_seq_len |-> g[t].outputs[b]]]
               /\ df.predictions = [t \in 1 .. dec.max_seq_len |-> g[t].prediction])

\* an inference call returned on a two-layer decoder built with dropout
\* that had run in training mode before
C9_Witness ==
    /\ pc = "dec_returned"
    /\ df.mode = "inference"
    /\ dec.num_layers = 2
    /\ dec.dropout_prob > 0
    /\ dec.max_seq_len = MaxSeqLen
    /\ df.batch_size = 2
    /\ df.predictions[1][1] # df.predictions[1][2]

\* C10 as stated: in the returned output every position at or beyond a
\* row's true length holds PAD_TOKEN_ID in every feature
C10_PaddedWithPadId ==
    pc = "enc_returned" =>
        \A b \in 1 .. Len(ef.output) :
            \A p \in 1 .. Len(ef.output[b]) :
                p > ef.seq_lengths[b] =>
                    \A j \in 1 .. Len(ef.output[b][p]) :
                        ef.output[b][p][j] = PAD_TOKEN_ID

====
